---------------------------- MODULE Spec2Model ----------------------------
(***************************************************************************)
(* Model of predicting_diabetes_risk.py: a notebook exported as a script.  *)
(* The script loads a survey table, trains a first classifier on the raw   *)
(* (unbalanced) table, oversamples the label-1 rows, trains a second       *)
(* classifier on the oversampled table, ranks the features by permutation  *)
(* importance and trains a third classifier on a subset of the columns.    *)
(*                                                                         *)
(* Five specifications share the variables below:                          *)
(*   Spec        the whole script, statement by statement (control flow    *)
(*               and the identity / training history of each model)        *)
(*   SpecPrep    lines 142-167 on concrete rows: oversample, scale, split  *)
(*   SpecSearch  one tuner: ten trials, then the best-first ranking        *)
(*   SpecConf    lines 210-211: round the predictions, confusion matrix    *)
(*   SpecPerm    lines 244-251: the permutation-importance ranker          *)
(* A variable a specification does not use keeps the value Idle.           *)
(***************************************************************************)
EXTENDS Integers, Sequences, FiniteSets

VARIABLES
    pc,                          \* position in the script / in the call
    \* -- SpecPrep
    data,                        \* the table read by pd.read_csv (line 42)
    diabetes_group,              \* line 142
    nodiabetes_group,            \* line 143
    diabetes_group_oversampled,  \* line 144
    data_oversampled,            \* line 146
    X_os_sc,                     \* line 165
    split_os,                    \* line 167: positions of the train / test rows
    \* -- SpecSearch
    trials,                      \* the oracle's trials, in creation order
    best_hyperparameters,        \* tuner.get_best_hyperparameters()[0]
    best_model_trial,            \* the trial tuner.get_best_models()[0] loads
    \* -- SpecConf
    y_os_test,                   \* the labels of the held-out rows
    y_os_pred,                   \* line 210: predicted probabilities, in tenths
    conf_mat,                    \* line 211
    \* -- SpecPerm
    estimator,                   \* the fitted predictor the ranker scores
    X_os_test,                   \* the feature rows of the held-out split
    base_score,                  \* the score on the rows as they are
    X_res,                       \* the ranker's working copy of X_os_test
    iteration,                   \* completed passes over the columns
    scores_shuffled,             \* this pass's scores, one per column done
    results_,                    \* per column, the sum of the score decreases
    shuffled_sum,                \* per column, the sum of the shuffled scores
    feature_importances_,        \* perm.feature_importances_
    weights,                     \* line 251: the importances by feature name
    \* -- Spec
    completed,                   \* the statements executed so far, by line
    tuner,                       \* line 90: the hyperparameters tuner ranks first
    tuner_os,                    \* line 181
    tuner_sub,                   \* line 303
    heap,                        \* the Keras models built so far
    best_model,                  \* line 97: a reference into heap
    best_model_os,               \* line 188
    best_model_sub,              \* line 310
    my_model,                    \* line 237: the KerasRegressor wrapper
    test_report,                 \* lines 210-221: what was evaluated
    perm                         \* line 244: what was ranked

prepVars == <<data, diabetes_group, nodiabetes_group,
              diabetes_group_oversampled, data_oversampled, X_os_sc, split_os>>

searchVars == <<trials, best_hyperparameters, best_model_trial>>

confVars == <<y_os_test, y_os_pred, conf_mat>>

permVars == <<estimator, X_os_test, base_score, X_res, iteration,
              scores_shuffled, results_, shuffled_sum, feature_importances_,
              weights>>

pipeVars == <<completed, tuner, tuner_os, tuner_sub, heap, best_model,
              best_model_os, best_model_sub, my_model, test_report, perm>>

vars == <<pc, prepVars, searchVars, confVars, permVars, pipeVars>>

\* The variables SpecPrep leaves alone.
notPrep == <<searchVars, confVars, permVars, pipeVars>>

\* The variables SpecSearch leaves alone.
notSearch == <<prepVars, confVars, permVars, pipeVars>>

\* The variables SpecConf leaves alone.
notConf == <<prepVars, searchVars, permVars, pipeVars>>

\* The variables SpecPerm leaves alone.
notPerm == <<prepVars, searchVars, confVars, pipeVars>>

\* The variables Spec leaves alone.
notPipe == <<prepVars, searchVars, confVars, permVars>>

Idle == "idle"

PrepIdle ==
    /\ data = Idle /\ diabetes_group = Idle /\ nodiabetes_group = Idle
    /\ diabetes_group_oversampled = Idle /\ data_oversampled = Idle
    /\ X_os_sc = Idle /\ split_os = Idle

SearchIdle ==
    trials = Idle /\ best_hyperparameters = Idle /\ best_model_trial = Idle

ConfIdle == y_os_test = Idle /\ y_os_pred = Idle /\ conf_mat = Idle

PipeIdle ==
    /\ completed = Idle /\ tuner = Idle /\ tuner_os = Idle /\ tuner_sub = Idle
    /\ heap = Idle /\ best_model = Idle /\ best_model_os = Idle
    /\ best_model_sub = Idle /\ my_model = Idle /\ test_report = Idle
    /\ perm = Idle

PermIdle ==
    /\ estimator = Idle /\ X_os_test = Idle /\ base_score = Idle
    /\ X_res = Idle /\ iteration = Idle /\ scores_shuffled = Idle
    /\ results_ = Idle /\ shuffled_sum = Idle
    /\ feature_importances_ = Idle /\ weights = Idle

\* ------------------------------------------------------------------------
\* Bounds and input sets
\* ------------------------------------------------------------------------

\* The largest number of rows of an input table.
MaxRows == 4

\* Two of the feature columns the script names.
Columns == <<"HighBP", "BMI">>

ColIdx == 1..Len(Columns)

\* The values a feature cell may hold.
FeatureValues == {0, 1}

\* The two values of the Diabetes_binary column.
Labels == {0, 1}

FeatureVectors == [ColIdx -> FeatureValues]

\* The feature vectors of the rows SpecPrep and SpecPerm start from: both
\* columns vary, and their minima and maxima can differ.
PrepVectors == { v \in FeatureVectors : v[1] <= v[2] }

\* A table: row i carries the index label i that read_csv gives it.
Tables(n) ==
    { [i \in 1..n |-> [idx |-> i, x |-> r[i].x, y |-> r[i].y]] :
        r \in [1..n -> [x : PrepVectors, y : Labels]] }

\* ------------------------------------------------------------------------
\* Helpers
\* ------------------------------------------------------------------------

Range(s) == { s[i] : i \in DOMAIN s }

\* The selection with the comparison inverted.
RECURSIVE RowsWithLabelMutant(_, _)
RowsWithLabelMutant(df, v) ==
    IF df = << >> THEN << >>
    ELSE IF Head(df).y # v
         THEN <<Head(df)>> \o RowsWithLabelMutant(Tail(df), v)
         ELSE RowsWithLabelMutant(Tail(df), v)

\* data[data['Diabetes_binary'] == v]: the rows with label v, in order,
\* each keeping its index label.
RECURSIVE RowsWithLabel(_, _)
RowsWithLabel(df, v) ==
    IF df = << >> THEN << >>
    ELSE IF Head(df).y = v THEN <<Head(df)>> \o RowsWithLabel(Tail(df), v)
         ELSE RowsWithLabel(Tail(df), v)

\* How many rows of df carry index label i.
Count(df, i) == Cardinality({ p \in DOMAIN df : df[p].idx = i })

\* How many rows of df carry label v.
ClassCount(df, v) == Cardinality({ p \in DOMAIN df : df[p].y = v })

SetMin(S) == CHOOSE m \in S : \A k \in S : m <= k

SetMax(S) == CHOOSE m \in S : \A k \in S : m >= k


\* ------------------------------------------------------------------------
\* SpecPrep: lines 142-167 on concrete rows
\* ------------------------------------------------------------------------

\* The number of rows line 144 asks sample() for.
SampleSizeMutant == Len(diabetes_group)

SampleSize == Len(nodiabetes_group)

\* The label whose rows line 142 selects for resampling.
ResampledLabel == 1

\* The label whose rows line 143 selects and line 146 appends as they are.
KeptLabel == 0

\* Lines 142-143: the two boolean-mask selections.
SelectGroups ==
    /\ pc = "L142"
    /\ diabetes_group' = RowsWithLabel(data, ResampledLabel)
    /\ nodiabetes_group' = RowsWithLabel(data, KeptLabel)
    /\ pc' = "L144"
    /\ UNCHANGED <<data, diabetes_group_oversampled, data_oversampled,
                   X_os_sc, split_os, notPrep>>

\* Line 144: DataFrame.sample(n, replace=True) draws n row positions
\* independently and uniformly; it raises ValueError when asked for rows of
\* an empty frame.  No seed is given, so every draw is possible.
Sample ==
    /\ pc = "L144"
    /\ IF diabetes_group = << >> /\ SampleSize > 0
       THEN /\ pc' = "ValueError144"
            /\ UNCHANGED diabetes_group_oversampled
       ELSE /\ \E draws \in [1..SampleSize -> DOMAIN diabetes_group] :
                 diabetes_group_oversampled' =
                     [i \in 1..SampleSize |-> diabetes_group[draws[i]]]
            /\ pc' = "L146"
    /\ UNCHANGED <<data, diabetes_group, nodiabetes_group, data_oversampled,
                   X_os_sc, split_os, notPrep>>

\* The concatenation taking the whole table as its second frame.
concatMutant(a, b) == a \o data

\* pd.concat([a, b], axis=0): the rows of a, then the rows of b.
concat(a, b) == a \o b

\* Line 146.
Concat ==
    /\ pc = "L146"
    /\ data_oversampled' = concat(diabetes_group_oversampled, nodiabetes_group)
    /\ pc' = "L164"
    /\ UNCHANGED <<data, diabetes_group, nodiabetes_group,
                   diabetes_group_oversampled, X_os_sc, split_os, notPrep>>

\* MinMaxScaler.fit: the minimum and the maximum of every column of X.
fit(X) ==
    [c \in ColIdx |->
        [data_min |-> SetMin({ X[p][c] : p \in DOMAIN X }),
         data_max |-> SetMax({ X[p][c] : p \in DOMAIN X })]]

\* MinMaxScaler.transform of one cell: (v - min) / (max - min), a column of
\* zero range being divided by 1.  The quotient is kept as a fraction.
ScaleCell(v, mn, mx) ==
    [num |-> v - mn, den |-> IF mx = mn THEN 1 ELSE mx - mn]

transform(params, X) ==
    [p \in DOMAIN X |->
        [c \in ColIdx |->
            ScaleCell(X[p][c], params[c].data_min, params[c].data_max)]]

\* MinMaxScaler().fit_transform(X): fitted on the very rows it transforms.
fit_transform(X) == transform(fit(X), X)

\* data_oversampled.drop(['Diabetes_binary'], axis=1), as rows of cells.
DropLabel(df) == [p \in DOMAIN df |-> df[p].x]

\* Lines 164-166.  fit_transform raises ValueError on a table of no rows.
ScaleOs ==
    /\ pc = "L164"
    /\ IF data_oversampled = << >>
       THEN /\ pc' = "ValueError165"
            /\ UNCHANGED X_os_sc
       ELSE /\ X_os_sc' = fit_transform(DropLabel(data_oversampled))
            /\ pc' = "L167"
    /\ UNCHANGED <<data, diabetes_group, nodiabetes_group,
                   diabetes_group_oversampled, data_oversampled, split_os,
                   notPrep>>

\* train_test_split(test_size=0.20): ceil(0.2 * n) rows are held out.
NTest(n) == (n + 4) \div 5

\* Line 167.  The held-out rows are the first NTest(n) entries of a
\* permutation drawn from RandomState(123); which rows those are depends on
\* the row order of the input file, so every choice of NTest(n) positions
\* is possible.  It raises ValueError when no row is left for training.
SplitOs ==
    /\ pc = "L167"
    /\ LET n == Len(data_oversampled) IN
       IF n - NTest(n) = 0
       THEN /\ pc' = "ValueError167"
            /\ UNCHANGED split_os
       ELSE /\ \E test \in SUBSET (1..n) :
                 /\ Cardinality(test) = NTest(n)
                 /\ split_os' = [test |-> test, train |-> (1..n) \ test]
            /\ pc' = "done"
    /\ UNCHANGED <<data, diabetes_group, nodiabetes_group,
                   diabetes_group_oversampled, data_oversampled, X_os_sc,
                   notPrep>>

PrepInit ==
    /\ pc = "L142"
    /\ data \in UNION { Tables(n) : n \in 0..MaxRows }
    /\ diabetes_group = Idle
    /\ nodiabetes_group = Idle
    /\ diabetes_group_oversampled = Idle
    /\ data_oversampled = Idle
    /\ X_os_sc = Idle
    /\ split_os = Idle
    /\ SearchIdle
    /\ ConfIdle
    /\ PermIdle
    /\ PipeIdle

PrepNext == SelectGroups \/ Sample \/ Concat \/ ScaleOs \/ SplitOs

SpecPrep == PrepInit /\ [][PrepNext]_vars


\* ------------------------------------------------------------------------
\* Properties of SpecPrep
\* ------------------------------------------------------------------------

Balanced(df) == ClassCount(df, 0) = ClassCount(df, 1)

\* Line 146 has been executed: data_oversampled holds the balanced table.
Oversampled == pc \in {"L164", "L167", "done", "ValueError165", "ValueError167"}

BothClasses(df) == ClassCount(df, 0) >= 1 /\ ClassCount(df, 1) >= 1

\* The rows line 167 puts in the training and in the test split.
TrainRows == { data_oversampled[p] : p \in split_os.train }

TestRows == { data_oversampled[p] : p \in split_os.test }

\* Equality of two fractions.
FracEq(a, b) == a.num * b.den = b.num * a.den

\* C1: for every table with at least one row of each label, the balanced
\* table has as many label-0 rows as label-1 rows, and each of its rows is
\* a row of the input table.
C1_BalancedFromOriginals ==
    (Oversampled /\ BothClasses(data)) =>
        /\ Balanced(data_oversampled)
        /\ \A p \in DOMAIN data_oversampled : data_oversampled[p] \in Range(data)

\* An unbalanced table with both labels has been balanced, and grew.
C1_Witness ==
    /\ Oversampled
    /\ BothClasses(data)
    /\ ~ Balanced(data)
    /\ Len(data_oversampled) > Len(data)

\* C7 as stated: the label with more rows is the majority; each of its rows
\* occurs in the result as often as in the input, and as many rows as the
\* majority has are drawn from the rows of the other label.
C7_MajorityBySize ==
    (Oversampled /\ BothClasses(data)) =>
        \A m \in Labels :
            ClassCount(data, m) > ClassCount(data, 1 - m) =>
                /\ \A i \in DOMAIN data :
                       data[i].y = m => Count(data_oversampled, i) = 1
                /\ Len(diabetes_group_oversampled) = ClassCount(data, m)
                /\ \A p \in DOMAIN diabetes_group_oversampled :
                       diabetes_group_oversampled[p].y = 1 - m

\* C7 amended: the partitions are chosen by label value.  The label-0 rows
\* are kept as they are, each once; as many rows as label 0 has are drawn,
\* with replacement, from the label-1 rows; this holds whichever label has
\* more rows.
C7_ByFixedLabel ==
    Oversampled =>
        /\ \A i \in DOMAIN data :
               data[i].y = 0 => Count(data_oversampled, i) = 1
        /\ Len(diabetes_group_oversampled) = ClassCount(data, 0)
        /\ \A p \in DOMAIN diabetes_group_oversampled :
               /\ diabetes_group_oversampled[p] \in Range(data)
               /\ diabetes_group_oversampled[p].y = 1
        /\ ClassCount(data_oversampled, 1) = Len(diabetes_group_oversampled)

\* Label 1 is the larger class, and the table has been balanced.
C7_Witness ==
    /\ Oversampled
    /\ ClassCount(data, 0) >= 1
    /\ ClassCount(data, 1) > ClassCount(data, 0)

\* C8 as stated: when the two labels already have equal counts, the result
\* holds every input row exactly as often as the input does.
C8_UnchangedWhenBalanced ==
    (Oversampled /\ Balanced(data)) =>
        \A i \in DOMAIN data : Count(data_oversampled, i) = 1

\* C8 amended: when the two labels already have equal counts, the result
\* has as many rows as the input and holds every label-0 row exactly once;
\* its label-1 half is a fresh sample, with replacement, of the label-1
\* rows.
C8_ResampledWhenBalanced ==
    (Oversampled /\ Balanced(data)) =>
        /\ Len(data_oversampled) = Len(data)
        /\ \A i \in DOMAIN data :
               data[i].y = 0 => Count(data_oversampled, i) = 1
        /\ \A p \in DOMAIN data_oversampled :
               data_oversampled[p].y = 1 =>
                   data_oversampled[p] \in Range(RowsWithLabel(data, 1))

\* A balanced input whose resampling duplicated one label-1 row and lost
\* another.
C8_Witness ==
    /\ Oversampled
    /\ Balanced(data)
    /\ \E i, j \in DOMAIN data :
           /\ Count(data_oversampled, i) = 2
           /\ Count(data_oversampled, j) = 0

\* C2: the scaled value of every held-out row is the one given by the
\* minimum and maximum of the training rows alone.
C2_ScaledByTrainingRowsOnly ==
    pc = "done" =>
        LET raw == DropLabel(data_oversampled)
            params == fit([p \in split_os.train |-> raw[p]])
        IN  \A p \in split_os.test : \A c \in ColIdx :
                FracEq(X_os_sc[p][c],
                       ScaleCell(raw[p][c], params[c].data_min,
                                 params[c].data_max))

\* C10: no row of the input table occurs, as itself or as a resampled
\* copy, both in the training split and in the test split.
C10_TrainTestDisjoint ==
    pc = "done" =>
        \A r \in TrainRows : \A t \in TestRows : r.idx # t.idx


\* ------------------------------------------------------------------------
\* SpecSearch: one BayesianOptimization tuner (lines 82-97, 169-188, 296-310)
\* ------------------------------------------------------------------------

\* max_trials of every tuner the script builds.
max_trials == 10

\* The objective (val_accuracy) of a trial takes one of MaxScore + 1 levels.
MaxScore == 1

Scores == 0..MaxScore

\* One step of the ranking, with the comparison made strict.
RECURSIVE InsertMutant(_, _)
InsertMutant(t, ranked) ==
    IF ranked = << >> THEN <<t>>
    ELSE IF Head(ranked).score > t.score
         THEN <<Head(ranked)>> \o InsertMutant(t, Tail(ranked))
         ELSE <<t>> \o ranked

\* One step of sorted(trials, key=score, reverse=True): Python's sort is
\* stable, also when reversed, so a trial goes behind every trial ranked so
\* far whose score is at least its own.
RECURSIVE Insert(_, _)
Insert(t, ranked) ==
    IF ranked = << >> THEN <<t>>
    ELSE IF Head(ranked).score >= t.score
         THEN <<Head(ranked)>> \o Insert(t, Tail(ranked))
         ELSE <<t>> \o ranked

RECURSIVE sorted(_)
sorted(ts) ==
    IF ts = << >> THEN << >>
    ELSE Insert(ts[Len(ts)], sorted(SubSeq(ts, 1, Len(ts) - 1)))

\* oracle.get_best_trials(num_trials): the trials, best first, cut to
\* num_trials.  The objective val_accuracy is maximised.
get_best_trials(num_trials) ==
    LET ranked == sorted(trials)
    IN  SubSeq(ranked, 1, IF num_trials < Len(ranked) THEN num_trials
                          ELSE Len(ranked))

\* tuner.search (lines 90, 181, 303): one trial per step, until max_trials
\* trials have run; each trial records its objective.
RunTrial ==
    /\ pc = "search"
    /\ Len(trials) < max_trials
    /\ \E s \in Scores :
           trials' = Append(trials, [trial_id |-> Len(trials), score |-> s])
    /\ pc' = IF Len(trials') = max_trials THEN "get_best" ELSE "search"
    /\ UNCHANGED <<best_hyperparameters, best_model_trial, notSearch>>

\* Lines 96-97 (187-188, 309-310): get_best_hyperparameters() and
\* get_best_models() each ask the oracle for its one best trial and the
\* script takes element [0].
GetBest ==
    /\ pc = "get_best"
    /\ best_hyperparameters' = get_best_trials(1)[1]
    /\ best_model_trial' = get_best_trials(1)[1]
    /\ pc' = "done"
    /\ UNCHANGED <<trials, notSearch>>

SearchInit ==
    /\ pc = "search"
    /\ trials = << >>
    /\ best_hyperparameters = Idle
    /\ best_model_trial = Idle
    /\ PrepIdle
    /\ ConfIdle
    /\ PermIdle
    /\ PipeIdle

SearchNext == RunTrial \/ GetBest

SpecSearch == SearchInit /\ [][SearchNext]_vars

\* C6: after max_trials trials the ranking the oracle returns is
\* non-increasing in the objective, equal objectives in order of trial
\* index; the trial the script selects is its first element, so no trial
\* has a greater objective and no earlier trial has an equal one.
C6_BestFirst ==
    pc = "done" =>
        LET ranked == get_best_trials(max_trials) IN
        /\ Len(ranked) = max_trials
        /\ \A i, j \in DOMAIN ranked :
               i < j =>
                   \/ ranked[i].score > ranked[j].score
                   \/ /\ ranked[i].score = ranked[j].score
                      /\ ranked[i].trial_id < ranked[j].trial_id
        /\ best_hyperparameters = ranked[1]
        /\ best_model_trial = ranked[1]
        /\ \A k \in DOMAIN trials :
               /\ trials[k].score <= best_hyperparameters.score
               /\ trials[k].score = best_hyperparameters.score =>
                      best_hyperparameters.trial_id <= trials[k].trial_id

\* The best objective was reached by two trials, neither of them the
\* first trial, and the earlier of the two was selected.
C6_Witness ==
    /\ pc = "done"
    /\ best_hyperparameters.trial_id > 0
    /\ \E k \in DOMAIN trials :
           /\ trials[k].score = best_hyperparameters.score
           /\ trials[k].trial_id > best_hyperparameters.trial_id

\* ------------------------------------------------------------------------
\* SpecConf: lines 210-211 (also 121-122, 332-333)
\* ------------------------------------------------------------------------

\* The largest number of held-out rows.
MaxTest == 4

\* Predicted probabilities, in tenths.
Probs == {2, 4, 5, 8, 9}

\* np.round of p / 10: to the nearest integer, a half going to the even one.
round(p) ==
    LET q == p \div 10
        r == p % 10
    IN  IF r > 5 \/ (r = 5 /\ q % 2 = 1) THEN q + 1 ELSE q

RECURSIVE SortedSeq(_)
SortedSeq(S) ==
    IF S = {} THEN << >> ELSE <<SetMin(S)>> \o SortedSeq(S \ {SetMin(S)})

\* sklearn.metrics.confusion_matrix(y_true, y_pred) without labels=: the
\* labels are the sorted values that occur in y_true or in y_pred, and cell
\* [i][j] counts the rows whose true label is the i-th and whose predicted
\* label is the j-th of them.
confusion_matrix(y_true, y_pred) ==
    LET labels == SortedSeq(Range(y_true) \cup Range(y_pred))
    IN  [i \in DOMAIN labels |->
            [j \in DOMAIN labels |->
                Cardinality({ k \in DOMAIN y_true :
                                /\ y_true[k] = labels[i]
                                /\ y_pred[k] = labels[j] })]]

\* Line 210: the model's outputs; any probabilities are possible.
Predict ==
    /\ pc = "L210"
    /\ y_os_pred' \in [DOMAIN y_os_test -> Probs]
    /\ pc' = "L211"
    /\ UNCHANGED <<y_os_test, conf_mat, notConf>>

\* Line 211.
ConfMat ==
    /\ pc = "L211"
    /\ conf_mat' = confusion_matrix(y_os_test,
                                    [k \in DOMAIN y_os_pred |-> round(y_os_pred[k])])
    /\ pc' = "done"
    /\ UNCHANGED <<y_os_test, y_os_pred, notConf>>

ConfInit ==
    /\ pc = "L210"
    /\ y_os_test \in UNION { [1..n -> Labels] : n \in 1..MaxTest }
    /\ y_os_pred = Idle
    /\ conf_mat = Idle
    /\ PrepIdle
    /\ SearchIdle
    /\ PermIdle
    /\ PipeIdle

ConfNext == Predict \/ ConfMat

SpecConf == ConfInit /\ [][ConfNext]_vars

\* The number of held-out rows with actual label a and rounded prediction p.
Cell(a, p) ==
    Cardinality({ k \in DOMAIN y_os_test :
                    y_os_test[k] = a /\ round(y_os_pred[k]) = p })

\* C5: the confusion matrix is 2x2; its cell [a][p] is the number of
\* held-out rows with actual label a and prediction, rounded at 0.5, p; the
\* four cells sum to the number of held-out rows.
C5_TwoByTwoCounts ==
    pc = "done" =>
        /\ Len(conf_mat) = 2
        /\ \A a \in Labels :
               /\ Len(conf_mat[a + 1]) = 2
               /\ \A p \in Labels : conf_mat[a + 1][p + 1] = Cell(a, p)
        /\ conf_mat[1][1] + conf_mat[1][2] + conf_mat[2][1] + conf_mat[2][2]
               = Len(y_os_test)

\* When both labels occur among the actual and the rounded predicted
\* labels, the matrix is the 2x2 table of C5; this is the case of the
\* worked example, predictions 0.9, 0.2, 0.4, 0.8 against 1, 0, 0, 1.
TwoLabelsTwoByTwo ==
    (pc = "done" /\ \E k \in DOMAIN y_os_test :
                        y_os_test[k] = 1 \/ round(y_os_pred[k]) = 1) =>
        ((\E k \in DOMAIN y_os_test :
              y_os_test[k] = 0 \/ round(y_os_pred[k]) = 0) =>
            /\ Len(conf_mat) = 2
            /\ \A a, p \in Labels : conf_mat[a + 1][p + 1] = Cell(a, p))

Example ==
    (/\ pc = "done"
     /\ y_os_pred = <<9, 2, 4, 8>>
     /\ y_os_test = <<1, 0, 0, 1>>) => conf_mat = <<<<2, 0>>, <<0, 2>>>>


\* ------------------------------------------------------------------------
\* SpecPerm: lines 244-251, PermutationImportance(my_model).fit and the
\* naming of its scores
\* ------------------------------------------------------------------------

\* The largest number of rows of the evaluation set.
MaxEval == 2

\* n_iter of PermutationImportance, which line 244 leaves at its default.
n_iter == 5

\* The fitted predictors the ranker is run on: one weight, 0 or 1, per
\* column; a column of weight 0 is ignored by the predictor.
Estimators == [ColIdx -> {0, 1}]

RECURSIVE SumOver(_, _)
SumOver(f, S) ==
    IF S = {} THEN 0
    ELSE LET k == CHOOSE k \in S : TRUE IN f[k] + SumOver(f, S \ {k})

\* The predictor's output for one row, in tenths.
predict(w, x) == IF SumOver([c \in ColIdx |-> w[c] * x[c]], ColIdx) >= 1 THEN 9 ELSE 1

\* KerasRegressor.score: the negated mean squared error of the predictions.
\* Kept multiplied by 100 * (number of rows), which every call shares.
score(w, X, y) ==
    0 - SumOver([r \in DOMAIN X |->
                    (predict(w, X[r]) - 10 * y[r]) * (predict(w, X[r]) - 10 * y[r])],
                DOMAIN X)

\* The permutations of 1..n.
Permutations(n) ==
    { f \in [1..n -> 1..n] : \A i, j \in 1..n : f[i] = f[j] => i = j }

\* rng.shuffle(X_res[:, c]): column c reordered, every other cell as it was.
ShuffleColumn(Xr, c, f) ==
    [r \in DOMAIN Xr |->
        [k \in ColIdx |-> IF k = c THEN Xr[f[r]][k] ELSE Xr[r][k]]]

\* X_res[:, c] = X[:, c]: the column put back once the copy has been used.
RestoreColumn(Xr, X, c) ==
    [r \in DOMAIN Xr |->
        [k \in ColIdx |-> IF k = c THEN X[r][k] ELSE Xr[r][k]]]

\* The decrease with its operands exchanged.
ScoreDecreaseMutant(base, shuffled) == shuffled - base

\* -scores_shuffled + base_score.
ScoreDecrease(base, shuffled) == base - shuffled

\* get_score_importances, first statement: the score on the rows as given.
BaseScore ==
    /\ pc = "base_score"
    /\ base_score' = score(estimator, X_os_test, y_os_test)
    /\ X_res' = X_os_test
    /\ iteration' = 0
    /\ scores_shuffled' = << >>
    /\ results_' = [c \in ColIdx |-> 0]
    /\ shuffled_sum' = [c \in ColIdx |-> 0]
    /\ pc' = "shuffle"
    /\ UNCHANGED <<estimator, X_os_test, feature_importances_, weights, notPerm>>

\* One step of iter_shuffled and of the scoring of what it yields: the
\* column used before is put back, the next column is shuffled in the copy,
\* and the copy is scored.  random_state=1 fixes the permutations drawn, but
\* which rows they move depends on the rows; every permutation is possible.
ShuffleAndScore ==
    /\ pc = "shuffle"
    /\ iteration < n_iter
    /\ Len(scores_shuffled) < Len(Columns)
    /\ LET c == Len(scores_shuffled) + 1
           restored == IF c = 1 THEN X_res
                       ELSE RestoreColumn(X_res, X_os_test, c - 1)
       IN  \E f \in Permutations(Len(X_os_test)) :
               /\ X_res' = ShuffleColumn(restored, c, f)
               /\ scores_shuffled' =
                      Append(scores_shuffled, score(estimator, X_res', y_os_test))
               /\ shuffled_sum' =
                      [shuffled_sum EXCEPT
                          ![c] = @ + score(estimator, X_res', y_os_test)]
    /\ UNCHANGED <<pc, estimator, X_os_test, base_score, iteration, results_,
                   feature_importances_, weights, notPerm>>

\* The end of one pass: iter_shuffled puts the last column back and ends,
\* and the pass's score decreases join the results.
EndIteration ==
    /\ pc = "shuffle"
    /\ iteration < n_iter
    /\ Len(scores_shuffled) = Len(Columns)
    /\ X_res' = RestoreColumn(X_res, X_os_test, Len(Columns))
    /\ results_' = [c \in ColIdx |->
                       results_[c] + ScoreDecrease(base_score, scores_shuffled[c])]
    /\ scores_shuffled' = << >>
    /\ iteration' = iteration + 1
    /\ pc' = IF iteration' = n_iter THEN "mean" ELSE "shuffle"
    /\ UNCHANGED <<estimator, X_os_test, base_score, shuffled_sum,
                   feature_importances_, weights, notPerm>>

\* PermutationImportance.fit, last statement: np.mean(results_, axis=0),
\* one entry per column.  The mean is kept as a fraction.
Mean ==
    /\ pc = "mean"
    /\ feature_importances_' =
           [c \in ColIdx |-> [num |-> results_[c], den |-> n_iter]]
    /\ pc' = "L251"
    /\ UNCHANGED <<estimator, X_os_test, base_score, X_res, iteration,
                   scores_shuffled, results_, shuffled_sum, weights, notPerm>>

\* Line 251: the scores named by X.columns.tolist(), position by position.
ShowWeights ==
    /\ pc = "L251"
    /\ weights' = [name \in Range(Columns) |->
                      feature_importances_[CHOOSE c \in ColIdx : Columns[c] = name]]
    /\ pc' = "done"
    /\ UNCHANGED <<estimator, X_os_test, base_score, X_res, iteration,
                   scores_shuffled, results_, shuffled_sum,
                   feature_importances_, notPerm>>

PermInit ==
    /\ pc = "base_score"
    /\ estimator \in Estimators
    /\ \E n \in 2..MaxEval :
           /\ X_os_test \in [1..n -> PrepVectors]
           /\ y_os_test \in [1..n -> Labels]
    /\ y_os_pred = Idle /\ conf_mat = Idle
    /\ base_score = Idle /\ X_res = Idle /\ iteration = Idle
    /\ scores_shuffled = Idle /\ results_ = Idle /\ shuffled_sum = Idle
    /\ feature_importances_ = Idle /\ weights = Idle
    /\ PrepIdle
    /\ SearchIdle
    /\ PipeIdle

PermNext == BaseScore \/ ShuffleAndScore \/ EndIteration \/ Mean \/ ShowWeights

SpecPerm == PermInit /\ [][PermNext]_vars

\* The values of column c of X, with their multiplicities.
ColumnBag(X, c) ==
    [v \in FeatureValues |-> Cardinality({ r \in DOMAIN X : X[r][c] = v })]

ScriptMutant ==
    <<"L42", "L67", "L90", "L98", "L122", "L167", "L181", "L146", "L189",
      "L211", "L221", "L238", "L244", "L245", "L251", "L290", "L303", "L311",
      "L333", "L343">>

\* The statements of the file, top to bottom, each named by the line of
\* its last call.
Script ==
    <<"L42", "L67", "L90", "L98", "L122", "L146", "L167", "L181", "L189",
      "L211", "L221", "L238", "L244", "L245", "L251", "L290", "L303", "L311",
      "L333", "L343">>

\* The statement run after statement l.
Following(l) ==
    LET k == CHOOSE k \in DOMAIN Script : Script[k] = l
    IN  IF k = Len(Script) THEN "end" ELSE Script[k + 1]

\* Hyperparameters build_model can be given (lines 75-77): the width of the
\* first layer, from 32 to 512, and the number of further layers.
HyperParameters == [input_units : {32, 512}, n_layers : {1, 2}]

\* tuner.get_best_models()[0]: a new model built from the best
\* hyperparameters, carrying the weights its trial was trained to.
Loaded(hp, line, epochs) ==
    [hp |-> hp, trained |-> <<[line |-> line, epochs |-> epochs]>>]

\* model.fit(...): the model object itself is trained further, in place.
Fitted(h, ref, line, epochs) ==
    [h EXCEPT ![ref].trained = Append(@, [line |-> line, epochs |-> epochs])]

\* One statement done.
Step(l, line) ==
    /\ pc = l
    /\ pc' = Following(l)
    /\ completed' = Append(completed, line)

\* Line 42.
Load ==
    /\ Step("L42", 42)
    /\ UNCHANGED <<tuner, tuner_os, tuner_sub, heap, best_model, best_model_os,
                   best_model_sub, my_model, test_report, perm, notPipe>>

\* Lines 63-67: the raw table is scaled and split.
ScaleSplit ==
    /\ Step("L67", 67)
    /\ UNCHANGED <<tuner, tuner_os, tuner_sub, heap, best_model, best_model_os,
                   best_model_sub, my_model, test_report, perm, notPipe>>

\* Lines 82-90: the search on the raw table.
Search ==
    /\ Step("L90", 90)
    /\ tuner' \in HyperParameters
    /\ UNCHANGED <<tuner_os, tuner_sub, heap, best_model, best_model_os,
                   best_model_sub, my_model, test_report, perm, notPipe>>

\* Lines 96-98: the best model of the search, trained for 6 more epochs.
BestModelFit ==
    /\ Step("L98", 98)
    /\ best_model' = Len(heap) + 1
    /\ heap' = Fitted(Append(heap, Loaded(tuner, 90, 1)), Len(heap) + 1, 98, 6)
    /\ UNCHANGED <<tuner, tuner_os, tuner_sub, best_model_os, best_model_sub,
                   my_model, test_report, perm, notPipe>>

\* Lines 121-122: predictions and confusion matrix on the raw test split.
Evaluate ==
    /\ Step("L122", 122)
    /\ UNCHANGED <<tuner, tuner_os, tuner_sub, heap, best_model, best_model_os,
                   best_model_sub, my_model, test_report, perm, notPipe>>

\* Lines 142-146: balancing.
Balance ==
    /\ Step("L146", 146)
    /\ UNCHANGED <<tuner, tuner_os, tuner_sub, heap, best_model, best_model_os,
                   best_model_sub, my_model, test_report, perm, notPipe>>

\* Lines 164-167: the oversampled table is scaled and split.
ScaleSplitOs ==
    /\ Step("L167", 167)
    /\ UNCHANGED <<tuner, tuner_os, tuner_sub, heap, best_model, best_model_os,
                   best_model_sub, my_model, test_report, perm, notPipe>>

\* Lines 169-181: the search on the oversampled table.
SearchOs ==
    /\ Step("L181", 181)
    /\ tuner_os' \in HyperParameters
    /\ UNCHANGED <<tuner, tuner_sub, heap, best_model, best_model_os,
                   best_model_sub, my_model, test_report, perm, notPipe>>

\* Lines 187-189.
BestModelFitOs ==
    /\ Step("L189", 189)
    /\ best_model_os' = Len(heap) + 1
    /\ heap' = Fitted(Append(heap, Loaded(tuner_os, 181, 50)),
                      Len(heap) + 1, 189, 200)
    /\ UNCHANGED <<tuner, tuner_os, tuner_sub, best_model, best_model_sub,
                   my_model, test_report, perm, notPipe>>

\* Lines 210-211: the confusion matrix of best_model_os as it then is.
ConfMatOs ==
    /\ Step("L211", 211)
    /\ test_report' = [conf_mat |-> heap[best_model_os]]
    /\ UNCHANGED <<tuner, tuner_os, tuner_sub, heap, best_model, best_model_os,
                   best_model_sub, my_model, perm, notPipe>>

\* Line 221: test loss and accuracy of best_model_os as it then is.
EvaluateOs ==
    /\ Step("L221", 221)
    /\ test_report' = [conf_mat |-> test_report.conf_mat,
                       evaluate |-> heap[best_model_os]]
    /\ UNCHANGED <<tuner, tuner_os, tuner_sub, heap, best_model, best_model_os,
                   best_model_sub, my_model, perm, notPipe>>

\* Lines 237-238: KerasRegressor.fit calls build_fn, which returns
\* best_model_os itself, and trains what build_fn returned for 200 epochs.
WrapperFit ==
    /\ Step("L238", 238)
    /\ my_model' = [model |-> best_model_os]
    /\ heap' = Fitted(heap, best_model_os, 238, 200)
    /\ UNCHANGED <<tuner, tuner_os, tuner_sub, best_model, best_model_os,
                   best_model_sub, test_report, perm, notPipe>>

\* Line 244: the ranker scores my_model.model as it then is.
PermutationImportance ==
    /\ Step("L244", 244)
    /\ perm' = [estimator |-> heap[my_model.model]]
    /\ UNCHANGED <<tuner, tuner_os, tuner_sub, heap, best_model, best_model_os,
                   best_model_sub, my_model, test_report, notPipe>>

\* Line 245: X_os_test is the array train_test_split made of the array
\* fit_transform returned; it has no .columns, and the statement raises
\* AttributeError.  Run as a script, the file ends here.
ShowWeightsRaises ==
    /\ pc = "L245"
    /\ pc' = "AttributeError"
    /\ UNCHANGED <<pipeVars, notPipe>>

\* Line 245 in the notebook: the cell fails and the next cell is run.
ShowWeightsCellFails ==
    /\ pc = "L245"
    /\ pc' = Following("L245")
    /\ UNCHANGED <<pipeVars, notPipe>>

\* Line 251.
ShowWeightsByName ==
    /\ Step("L251", 251)
    /\ UNCHANGED <<tuner, tuner_os, tuner_sub, heap, best_model, best_model_os,
                   best_model_sub, my_model, test_report, perm, notPipe>>

\* Lines 288-290: twelve columns of the oversampled table, scaled and split.
ScaleSplitSub ==
    /\ Step("L290", 290)
    /\ UNCHANGED <<tuner, tuner_os, tuner_sub, heap, best_model, best_model_os,
                   best_model_sub, my_model, test_report, perm, notPipe>>

\* Lines 296-303.
SearchSub ==
    /\ Step("L303", 303)
    /\ tuner_sub' \in HyperParameters
    /\ UNCHANGED <<tuner, tuner_os, heap, best_model, best_model_os,
                   best_model_sub, my_model, test_report, perm, notPipe>>

\* Lines 309-311.
BestModelFitSub ==
    /\ Step("L311", 311)
    /\ best_model_sub' = Len(heap) + 1
    /\ heap' = Fitted(Append(heap, Loaded(tuner_sub, 303, 150)),
                      Len(heap) + 1, 311, 200)
    /\ UNCHANGED <<tuner, tuner_os, tuner_sub, best_model, best_model_os,
                   my_model, test_report, perm, notPipe>>

\* Lines 332-333.
ConfMatSub ==
    /\ Step("L333", 333)
    /\ UNCHANGED <<tuner, tuner_os, tuner_sub, heap, best_model, best_model_os,
                   best_model_sub, my_model, test_report, perm, notPipe>>

\* Line 343.
EvaluateSub ==
    /\ Step("L343", 343)
    /\ UNCHANGED <<tuner, tuner_os, tuner_sub, heap, best_model, best_model_os,
                   best_model_sub, my_model, test_report, perm, notPipe>>

Init ==
    /\ pc = "L42"
    /\ completed = << >>
    /\ heap = << >>
    /\ tuner = Idle /\ tuner_os = Idle /\ tuner_sub = Idle
    /\ best_model = Idle /\ best_model_os = Idle /\ best_model_sub = Idle
    /\ my_model = Idle /\ test_report = Idle /\ perm = Idle
    /\ PrepIdle
    /\ SearchIdle
    /\ ConfIdle
    /\ PermIdle

Next ==
    \/ Load \/ ScaleSplit \/ Search \/ BestModelFit \/ Evaluate
    \/ Balance \/ ScaleSplitOs \/ SearchOs \/ BestModelFitOs
    \/ ConfMatOs \/ EvaluateOs \/ WrapperFit \/ PermutationImportance
    \/ ShowWeightsRaises \/ ShowWeightsCellFails \/ ShowWeightsByName
    \/ ScaleSplitSub \/ SearchSub \/ BestModelFitSub \/ ConfMatSub
    \/ EvaluateSub

Spec == Init /\ [][Next]_vars

\* The statement of line l has been executed.
Done(l) == \E k \in DOMAIN completed : completed[k] = l

\* The position of line l among the executed statements.
At(l) == CHOOSE k \in DOMAIN completed : completed[k] = l

\* The stage a statement belongs to.
Stage(l) ==
    CASE l = 42 -> "loading"
      [] l \in {67, 167, 290} -> "loading"
      [] l = 146 -> "balancing"
      [] l \in {90, 181, 303} -> "search"
      [] l \in {98, 189, 238, 311} -> "training"
      [] l \in {122, 211, 221, 333, 343} -> "evaluation"
      [] l \in {244, 251} -> "importance"

\* The place of a stage in the order loading, balancing, search, training,
\* evaluation, importance ranking.
Place(stage) ==
    CASE stage = "loading" -> 1
      [] stage = "balancing" -> 2
      [] stage = "search" -> 3
      [] stage = "training" -> 4
      [] stage = "evaluation" -> 5
      [] stage = "importance" -> 6

\* The statements that work on the oversampled table or on what was made
\* of it.
OnOversampled ==
    {167, 181, 189, 211, 221, 238, 244, 251, 290, 303, 311, 333, 343}

\* C3 as stated: no search, fit or evaluation is executed before balancing
\* has completed, and importance ranking only after an evaluation.
C3_BalancingFirst ==
    \A k \in DOMAIN completed :
        /\ Stage(completed[k]) \in {"search", "training", "evaluation"} =>
               \E j \in 1..(k - 1) : Stage(completed[j]) = "balancing"
        /\ Stage(completed[k]) = "importance" =>
               \E j \in 1..(k - 1) : Stage(completed[j]) = "evaluation"

\* C3 amended: the statements run one at a time in the order of the file.
\* The first search, fit and test-set evaluation (lines 90-122) work on the
\* raw table and are over before balancing (line 146); every statement that
\* works on the oversampled table runs after balancing; importance ranking
\* (line 244) runs after the evaluation of the oversampled model (lines
\* 211-221) and after the wrapper's fit (line 238), and is followed by the
\* search, fit and evaluation on the column subset.
C3_FileOrder ==
    /\ \A j, k \in DOMAIN completed : j < k => completed[j] < completed[k]
    /\ Done(146) => (Done(90) /\ Done(98) /\ Done(122))
    /\ \A l \in OnOversampled : Done(l) => (Done(146) /\ At(146) < At(l))
    /\ Done(244) =>
           /\ Done(211) /\ Done(221) /\ Done(238)
           /\ At(221) < At(238) /\ At(238) < At(244)
    /\ \A l \in {303, 311, 333, 343} : Done(l) => (Done(244) /\ At(244) < At(l))

\* The script has run to its last statement.
C3_Witness == pc = "end" /\ Done(90) /\ Done(146) /\ Done(244) /\ Done(343)

\* C9: the model the ranker scores has the weights of the model whose
\* confusion matrix, test loss and accuracy were reported; nothing between
\* evaluation and ranking trains it.
C9_RankedModelIsEvaluatedModel ==
    Done(244) =>
        /\ perm.estimator = test_report.evaluate
        /\ perm.estimator = test_report.conf_mat

=============================================================================
